---- MODULE Spec2Model ----
(***************************************************************************)
(* A model of the v8-cpuprofile library: the streaming decoder             *)
(* (de/visitors.rs), the chunk engine (lib.rs) and the encoder (ser).      *)
(*                                                                         *)
(* Conventions                                                             *)
(*   Option<T>   : None is <<>>, Some(x) is <<x>>                          *)
(*   Duration    : its number of microseconds                              *)
(*   RawValue    : an opaque payload, a number that is only ever copied     *)
(*   Vec index   : node_index keeps the 0-based index of the code, the     *)
(*                 sequence nodes is 1-based, so nodes[index + 1]           *)
(*   usize       : 0..UsizeMax, a scaled-down machine word; UsizeMax      *)
(*                 stands for usize::MAX                                   *)
(***************************************************************************)
EXTENDS Integers, Sequences, FiniteSets, TLC

\* Bounds of the model.
MaxNodes == 3
MaxSamples == 3
UsizeMax == 15

VARIABLES
    doc,        \* the JSON document handed to the decoder
    pc,         \* "visit" | "decoded" | "error" | "panic": where the decode is
    pos,        \* the next top-level key ProfileVisitor::visit_map reads
    v,          \* the locals of ProfileVisitor::visit_map
    error,      \* the Err the decode returned: [kind, field]
    profile,    \* Option<Profile>
    iter,       \* the ProfileChunks iterator of the chunks(chunk_num) call
    chunks,     \* the ProfileChunk values the iterator has yielded, in order
    json,       \* the output of the latest serialize call: [of, doc]
    main        \* main of v8-cpuprofile-split: its phase, tasks, results, return

vars == <<doc, pc, pos, v, error, profile, iter, chunks, json, main>>

-----------------------------------------------------------------------------
\* Option<T>
None == <<>>
Some(x) == <<x>>
IsSome(o) == Len(o) = 1
IsNone(o) == Len(o) = 0

Min(a, b) == IF a < b THEN a ELSE b

\* The required and the optional keys of the two JSON objects.
PROFILE_FIELDS == <<"nodes", "startTime", "endTime", "samples", "timeDeltas">>
NODE_FIELDS == <<"id", "callFrame", "hitCount", "children", "deoptReason", "positionTicks">>

-----------------------------------------------------------------------------
(* de/util.rs *)

\* A panic of the Rust runtime inside a pure function is the value Panic.
Panic == -1

\* offset_duration that always adds: the sign of the offset is dropped.
offset_duration_unsigned(duration, offset_micros) ==
    LET abs_offset == IF offset_micros < 0 THEN -offset_micros ELSE offset_micros
    IN  duration + abs_offset

\* Duration - Duration panics ("overflow when subtracting durations") when
\* the result would be negative.
offset_duration(duration, offset_micros) ==
    LET abs_offset == IF offset_micros < 0 THEN -offset_micros ELSE offset_micros
    IN  IF offset_micros < 0
        THEN IF duration - abs_offset < 0 THEN Panic ELSE duration - abs_offset
        ELSE duration + abs_offset

-----------------------------------------------------------------------------
(* de/visitors.rs: NodeVisitor *)

\* NodeVisitor::visit_map with the field names the derive-style default of
\* check_missing! would give (the stringified identifier).
NodeVisitMapIdent(obj) ==
    IF IsNone(obj.id) THEN [ok |-> FALSE, field |-> "id"]
    ELSE IF IsNone(obj.callFrame) THEN [ok |-> FALSE, field |-> "call_frame"]
    ELSE IF IsNone(obj.hitCount) THEN [ok |-> FALSE, field |-> "hit_count"]
    ELSE [ok |-> TRUE,
          node |-> [id |-> obj.id[1], parent_id |-> None,
                    call_frame |-> obj.callFrame[1], hit_count |-> obj.hitCount[1],
                    children |-> obj.children, deopt_reason |-> obj.deoptReason,
                    position_ticks |-> obj.positionTicks]]

\* NodeVisitor::visit_map over a node object whose keys are all known: the
\* Node, or the missing_field error of the first required key that is absent.
NodeVisitMap(obj) ==
    IF IsNone(obj.id) THEN [ok |-> FALSE, field |-> "id"]
    ELSE IF IsNone(obj.callFrame) THEN [ok |-> FALSE, field |-> "callFrame"]
    ELSE IF IsNone(obj.hitCount) THEN [ok |-> FALSE, field |-> "hitCount"]
    ELSE [ok |-> TRUE,
          node |-> [id |-> obj.id[1], parent_id |-> None,
                    call_frame |-> obj.callFrame[1], hit_count |-> obj.hitCount[1],
                    children |-> obj.children, deopt_reason |-> obj.deoptReason,
                    position_ticks |-> obj.positionTicks]]

-----------------------------------------------------------------------------
(* de/visitors.rs: ProfileVisitor, the three sequence callbacks *)

InsertAt(vec, index, x) ==
    SubSeq(vec, 1, index) \o <<x>> \o SubSeq(vec, index + 1, Len(vec))

\* visit_seq driving the "nodes" callback: index is the 0-based position of
\* the element read next, st the captured node_index, parent_ids and inner.
\* A node object that fails to deserialize ends the sequence with its error.
RECURSIVE VisitNodeSeq(_, _, _)
VisitNodeSeq(objs, index, st) ==
    IF index >= Len(objs) THEN st
    ELSE LET r == NodeVisitMap(objs[index + 1]) IN
         IF ~r.ok THEN [st EXCEPT !.err = Some(r.field)]
         ELSE LET node == r.node
                  pairs == IF IsSome(node.children)
                           THEN [k \in 1..Len(node.children[1]) |->
                                    <<node.id, node.children[1][k]>>]
                           ELSE <<>>
              IN  VisitNodeSeq(objs, index + 1,
                      [st EXCEPT !.node_index = (node.id :> index) @@ @,
                                 !.parent_ids = @ \o pairs,
                                 !.inner = Append(@, node)])

\* visit_seq driving the "samples" callback over the shared sample buffer.
RECURSIVE VisitSampleSeq(_, _, _)
VisitSampleSeq(ids, index, samples) ==
    IF index >= Len(ids) THEN samples
    ELSE LET node_id == ids[index + 1] IN
         VisitSampleSeq(ids, index + 1,
             IF index < Len(samples)
             THEN [samples EXCEPT ![index + 1].node_id = node_id]
             ELSE InsertAt(samples, index, [node_id |-> node_id, ts |-> 0]))

\* visit_seq driving the "timeDeltas" callback: st is the captured current
\* and samples; a panic of offset_duration unwinds out of the decode.
RECURSIVE VisitDeltaSeq(_, _, _)
VisitDeltaSeq(deltas, index, st) ==
    IF index >= Len(deltas) THEN st
    ELSE LET current == offset_duration(st.current, deltas[index + 1]) IN
         IF current = Panic THEN [st EXCEPT !.panic = TRUE]
         ELSE VisitDeltaSeq(deltas, index + 1,
                  [st EXCEPT !.current = current,
                             !.samples =
                                 IF index < Len(@)
                                 THEN [@ EXCEPT ![index + 1].ts = current]
                                 ELSE InsertAt(@, index, [node_id |-> 0, ts |-> current])])

\* The second pass: for (parent_id, node_id) in parent_ids, in order,
\* nodes[node_index[node_id]].parent_id = Some(parent_id). Indexing the map
\* with an id it does not hold panics.
ParentPassPanics(parent_ids, node_index) ==
    \E k \in 1..Len(parent_ids) : parent_ids[k][2] \notin DOMAIN node_index

\* The second pass with the two members of each pair taken the wrong way round.
RECURSIVE ParentPassSwapped(_, _, _)
ParentPassSwapped(nodes, parent_ids, node_index) ==
    IF parent_ids = <<>> THEN nodes
    ELSE LET parent_id == parent_ids[1][2]
             node_id == parent_ids[1][1]
         IN  ParentPassSwapped(
                 [nodes EXCEPT ![node_index[node_id] + 1].parent_id = Some(parent_id)],
                 Tail(parent_ids), node_index)

RECURSIVE ParentPassRec(_, _, _)
ParentPassRec(nodes, parent_ids, node_index) ==
    IF parent_ids = <<>> THEN nodes
    ELSE LET parent_id == parent_ids[1][1]
             node_id == parent_ids[1][2]
         IN  ParentPassRec(
                 [nodes EXCEPT ![node_index[node_id] + 1].parent_id = Some(parent_id)],
                 Tail(parent_ids), node_index)

ParentPass(nodes, parent_ids, node_index) ==
    ParentPassRec(nodes, parent_ids, node_index)

\* samples.sort(): a stable sort under Ord for Sample, which compares ts only.
\* Insert x behind every element that is not greater than it.
InsertSorted(sorted, x) ==
    LET k == Cardinality({i \in 1..Len(sorted) : sorted[i].ts <= x.ts})
    IN  InsertAt(sorted, k, x)

\* An unstable variant: x goes in front of the elements equal to it.
InsertSortedUnstable(sorted, x) ==
    LET k == Cardinality({i \in 1..Len(sorted) : sorted[i].ts < x.ts})
    IN  InsertAt(sorted, k, x)

RECURSIVE SortUnstable(_)
SortUnstable(samples) ==
    IF samples = <<>> THEN <<>>
    ELSE InsertSortedUnstable(SortUnstable(SubSeq(samples, 1, Len(samples) - 1)),
                              samples[Len(samples)])

RECURSIVE SortStable(_)
SortStable(samples) ==
    IF samples = <<>> THEN <<>>
    ELSE InsertSorted(SortStable(SubSeq(samples, 1, Len(samples) - 1)),
                      samples[Len(samples)])

sort(samples) == SortStable(samples)

-----------------------------------------------------------------------------
(* The documents the decoder is run on.  A document is the record of its    *)
(* top-level values with keys, the order its keys come in; a key that is    *)
(* not in keys is absent.  A node object holds Some(value) under a key it   *)
(* has and None under one it lacks.                                          *)

NodeIds == 1..MaxNodes
Deltas == {-1, 0, 1}

SeqsUpTo(S, n) == UNION {[1..k -> S] : k \in 0..n}

\* Call trees: parent[i] is the parent of node i, 0 for a root.
Forests == {parent \in [NodeIds -> 0..MaxNodes] : \A i \in NodeIds : parent[i] < i}
Chain == [i \in NodeIds |-> i - 1]

Ascending == [k \in NodeIds |-> k]
Descending == [k \in NodeIds |-> MaxNodes + 1 - k]

\* The node object of node i: its children in ascending order, a leaf without
\* the key (or with an empty list when emptyLeaf), every payload told apart
\* by the id, deoptReason and positionTicks on some nodes only.
NodeObject(parent, i, emptyLeaf) ==
    LET kids == SelectSeq(Ascending, LAMBDA j : parent[j] = i) IN
    [id |-> Some(i),
     callFrame |-> Some(100 + i),
     hitCount |-> Some(10 * i),
     children |-> IF kids = <<>> /\ ~emptyLeaf THEN None ELSE Some(kids),
     deoptReason |-> IF i % 2 = 1 THEN Some(200 + i) ELSE None,
     positionTicks |-> IF i = 2 THEN Some(300 + i) ELSE None]

NodeObjects(parent, order, emptyLeaf) ==
    [k \in NodeIds |-> NodeObject(parent, order[k], emptyLeaf)]

\* obj without the keys in omitted.
Omit(obj, omitted) ==
    [id |-> IF "id" \in omitted THEN None ELSE obj.id,
     callFrame |-> IF "callFrame" \in omitted THEN None ELSE obj.callFrame,
     hitCount |-> IF "hitCount" \in omitted THEN None ELSE obj.hitCount,
     children |-> IF "children" \in omitted THEN None ELSE obj.children,
     deoptReason |-> IF "deoptReason" \in omitted THEN None ELSE obj.deoptReason,
     positionTicks |-> IF "positionTicks" \in omitted THEN None ELSE obj.positionTicks]

Range(seq) == {seq[k] : k \in 1..Len(seq)}

Document(keys, nodes, samples, timeDeltas) ==
    [keys |-> keys,
     nodes |-> IF "nodes" \in Range(keys) THEN nodes ELSE <<>>,
     startTime |-> IF "startTime" \in Range(keys) THEN 5 ELSE 0,
     endTime |-> IF "endTime" \in Range(keys) THEN 9 ELSE 0,
     samples |-> IF "samples" \in Range(keys) THEN samples ELSE <<>>,
     timeDeltas |-> IF "timeDeltas" \in Range(keys) THEN timeDeltas ELSE <<>>]

Reverse(seq) == [k \in 1..Len(seq) |-> seq[Len(seq) + 1 - k]]
KeyOrders == {PROFILE_FIELDS, Reverse(PROFILE_FIELDS)}

\* Every call tree under every sequence of samples, one microsecond between
\* two samples; and every call tree with its nodes in the reverse document
\* order, children before their parents.
TreeDocs ==
    {Document(PROFILE_FIELDS, NodeObjects(parent, Ascending, FALSE),
              samples, [k \in 1..Len(samples) |-> 1]) :
        parent \in Forests, samples \in SeqsUpTo(NodeIds, MaxSamples)}
    \cup
    {Document(PROFILE_FIELDS, NodeObjects(parent, Descending, FALSE),
              <<MaxNodes, 1>>, <<1, 1>>) :
        parent \in Forests}

\* Every sequence of time deltas, under samples of the first and the last node.
TimeDocs ==
    UNION {{Document(PROFILE_FIELDS, NodeObjects(Chain, Ascending, FALSE),
                     samples, timeDeltas) :
               timeDeltas \in [1..Len(samples) -> Deltas]} :
           samples \in SeqsUpTo({1, MaxNodes}, MaxSamples)}

\* One node object without some of its keys, leaves with and without an
\* empty children list.
NodeDocs ==
    {Document(PROFILE_FIELDS,
              [NodeObjects(Chain, Ascending, emptyLeaf) EXCEPT ![k] = Omit(@, omitted)],
              <<MaxNodes, 1>>, <<2, 1>>) :
        k \in NodeIds, omitted \in SUBSET Range(NODE_FIELDS), emptyLeaf \in BOOLEAN}

\* Any of the top-level keys absent, the others in either order.
FieldDocs ==
    UNION {{Document(SelectSeq(keys, LAMBDA key : key \in present),
                     NodeObjects(Chain, Descending, FALSE), <<MaxNodes, 1>>, timeDeltas) :
               keys \in KeyOrders, present \in SUBSET Range(PROFILE_FIELDS)} :
           timeDeltas \in [1..2 -> Deltas]}

Documents == TreeDocs \cup TimeDocs \cup NodeDocs \cup FieldDocs

-----------------------------------------------------------------------------
(* de/visitors.rs: ProfileVisitor::visit_map, one action per key it reads   *)

Init ==
    /\ doc \in Documents
    /\ pc = "visit"
    /\ pos = 1
    /\ v = [node_index |-> <<>>, parent_ids |-> <<>>, nodes |-> None,
            start_time |-> None, end_time |-> None, samples |-> <<>>,
            has_samples |-> FALSE, has_time_deltas |-> FALSE, current |-> 0]
    /\ error = None
    /\ profile = None
    /\ iter = [state |-> "none"]
    /\ chunks = <<>>
    /\ json = None
    /\ main = [phase |-> "init", tasks |-> <<>>, results |-> <<>>, ret |-> None]

AtKey(key) == pc = "visit" /\ pos <= Len(doc.keys) /\ doc.keys[pos] = key

missing_field(field) == Some([kind |-> "missing_field", field |-> field])

\* "nodes" => nodes.insert(Vec::new()), then every node object.
VisitNodes ==
    /\ AtKey("nodes")
    /\ LET st == VisitNodeSeq(doc.nodes, 0,
                     [node_index |-> v.node_index, parent_ids |-> v.parent_ids,
                      inner |-> <<>>, err |-> None])
       IN  /\ v' = [v EXCEPT !.node_index = st.node_index,
                             !.parent_ids = st.parent_ids,
                             !.nodes = Some(st.inner)]
           /\ IF IsSome(st.err)
              THEN pc' = "error" /\ error' = missing_field(st.err[1]) /\ pos' = pos
              ELSE pc' = pc /\ error' = error /\ pos' = pos + 1
    /\ UNCHANGED <<doc, profile, iter, chunks, json, main>>

VisitStartTime ==
    /\ AtKey("startTime")
    /\ v' = [v EXCEPT !.start_time = Some(doc.startTime)]
    /\ pos' = pos + 1
    /\ UNCHANGED <<doc, pc, error, profile, iter, chunks, json, main>>

VisitEndTime ==
    /\ AtKey("endTime")
    /\ v' = [v EXCEPT !.end_time = Some(doc.endTime)]
    /\ pos' = pos + 1
    /\ UNCHANGED <<doc, pc, error, profile, iter, chunks, json, main>>

VisitSamples ==
    /\ AtKey("samples")
    /\ v' = [v EXCEPT !.has_samples = TRUE,
                      !.samples = VisitSampleSeq(doc.samples, 0, @)]
    /\ pos' = pos + 1
    /\ UNCHANGED <<doc, pc, error, profile, iter, chunks, json, main>>

VisitTimeDeltas ==
    /\ AtKey("timeDeltas")
    /\ LET st == VisitDeltaSeq(doc.timeDeltas, 0,
                     [current |-> v.current, samples |-> v.samples, panic |-> FALSE])
       IN  /\ v' = [v EXCEPT !.has_time_deltas = TRUE,
                             !.current = st.current,
                             !.samples = st.samples]
           /\ IF st.panic
              THEN pc' = "panic" /\ pos' = pos
              ELSE pc' = pc /\ pos' = pos + 1
    /\ UNCHANGED <<doc, error, profile, iter, chunks, json, main>>

\* After the last key: the required values, the parent pass, the two flags,
\* the sort.  v keeps the sample buffer as it was before the sort.
Finish ==
    /\ pc = "visit" /\ pos > Len(doc.keys)
    /\ IF IsNone(v.nodes) THEN
           pc' = "error" /\ error' = missing_field("nodes") /\ profile' = profile
       ELSE IF IsNone(v.start_time) THEN
           pc' = "error" /\ error' = missing_field("startTime") /\ profile' = profile
       ELSE IF IsNone(v.end_time) THEN
           pc' = "error" /\ error' = missing_field("endTime") /\ profile' = profile
       ELSE IF ParentPassPanics(v.parent_ids, v.node_index) THEN
           pc' = "panic" /\ error' = error /\ profile' = profile
       ELSE IF ~v.has_samples THEN
           pc' = "error" /\ error' = missing_field("samples") /\ profile' = profile
       ELSE IF ~v.has_time_deltas THEN
           pc' = "error" /\ error' = missing_field("timeDeltas") /\ profile' = profile
       ELSE
           /\ pc' = "decoded"
           /\ error' = error
           /\ profile' = Some([nodes |-> ParentPass(v.nodes[1], v.parent_ids, v.node_index),
                               start_time |-> v.start_time[1],
                               end_time |-> v.end_time[1],
                               samples |-> sort(v.samples),
                               node_index |-> v.node_index])
    /\ UNCHANGED <<doc, pos, v, iter, chunks, json, main>>

-----------------------------------------------------------------------------
(* lib.rs: the chunk engine *)

\* usize arithmetic.  A build with overflow checks (debug) panics on an
\* overflow, one without them (release) wraps; a division by zero panics in
\* both.
UsizeAdd(a, b, checked) ==
    IF a = Panic \/ b = Panic THEN Panic
    ELSE IF a + b <= UsizeMax THEN a + b
    ELSE IF checked THEN Panic ELSE (a + b) % (UsizeMax + 1)

UsizeSub(a, b, checked) ==
    IF a = Panic \/ b = Panic THEN Panic
    ELSE IF a - b >= 0 THEN a - b
    ELSE IF checked THEN Panic ELSE (a - b + UsizeMax + 1) % (UsizeMax + 1)

UsizeDiv(a, b) ==
    IF a = Panic \/ b = Panic \/ b = 0 THEN Panic ELSE a \div b

\* div_ceil(n, d) = (n + d - 1) / d: the outcomes the builds can produce.
div_ceil(n, d) ==
    {UsizeDiv(UsizeSub(UsizeAdd(n, d, checked), 1, checked), d) : checked \in BOOLEAN}

\* Index<u64> for Profile: &self.nodes[self.node_index[&node_id]]
Index(p, node_id) == p.nodes[p.node_index[node_id] + 1]

\* The loop over parent_ids_iter(node_id) that stops after the first parent.
WalkParentsOnce(p, node_id, included) ==
    LET parent_id == Index(p, node_id).parent_id IN
    IF IsNone(parent_id) THEN included ELSE included \cup {parent_id[1]}

\* for parent_id in profile.parent_ids_iter(node_id)
\*     { if !included.insert(parent_id) { break; } }
\* ParentIter::next yields the parent_id of its node_id and moves to it.
RECURSIVE WalkParentsRec(_, _, _)
WalkParentsRec(p, node_id, included) ==
    LET parent_id == Index(p, node_id).parent_id IN
    IF IsNone(parent_id) THEN included
    ELSE IF parent_id[1] \in included THEN included
    ELSE WalkParentsRec(p, parent_id[1], included \cup {parent_id[1]})

WalkParents(p, node_id, included) == WalkParentsRec(p, node_id, included)

\* for sample in samples { if included.insert(node_id) { ... } }
RECURSIVE IncludeSamples(_, _, _)
IncludeSamples(p, samples, included) ==
    IF samples = <<>> THEN included
    ELSE LET node_id == samples[1].node_id IN
         IncludeSamples(p, Tail(samples),
             IF node_id \in included THEN included
             ELSE WalkParents(p, node_id, included \cup {node_id}))

\* ProfileChunk::new panics in Index when a sample names no node.
ProfileChunkNewPanics(p, samples) ==
    \E k \in 1..Len(samples) : samples[k].node_id \notin DOMAIN p.node_index

\* ProfileChunk::new run over all the samples of the profile, not the slice.
ProfileChunkNewWhole(p, samples) ==
    [samples |-> samples, included |-> IncludeSamples(p, p.samples, {})]

ProfileChunkNew(p, samples) ==
    [samples |-> samples, included |-> IncludeSamples(p, samples, {})]

\* FilteredNode::children that passes the list of the node on as it is.
FilteredChildrenAll(node, included) == node.children

\* FilteredNode::children
FilteredChildren(node, included) ==
    IF IsSome(node.children)
    THEN Some(SelectSeq(node.children[1], LAMBDA id : id \in included))
    ELSE None

\* ProfileChunk::nodes: the nodes of the profile whose id is included.
ChunkNodes(p, chunk) ==
    SelectSeq(p.nodes, LAMBDA node : node.id \in chunk.included)

ChunkNums == 0..(MaxSamples + 1) \cup {UsizeMax}

\* Profile::chunks(chunk_num): div_ceil, then slice::chunks(chunk_size),
\* which panics on a chunk_size of 0.
Chunks(chunk_num) ==
    /\ pc = "decoded" /\ iter.state = "none" /\ json = None
    /\ \E chunk_size \in div_ceil(Len(profile[1].samples), chunk_num) :
          iter' = IF chunk_size = Panic \/ chunk_size = 0
                  THEN [state |-> "panic", chunk_num |-> chunk_num,
                        v |-> <<>>, chunk_size |-> chunk_size]
                  ELSE [state |-> "iter", chunk_num |-> chunk_num,
                        v |-> profile[1].samples, chunk_size |-> chunk_size]
    /\ UNCHANGED <<doc, pc, pos, v, error, profile, chunks, json, main>>

\* ProfileChunks::next: core::slice::Chunks::next splits the first
\* min(len, chunk_size) samples off what is left, ProfileChunk::new wraps them.
ProfileChunksNext ==
    /\ iter.state = "iter"
    /\ IF iter.v = <<>> THEN
           iter' = [iter EXCEPT !.state = "done"] /\ chunks' = chunks
       ELSE LET chunksz == Min(Len(iter.v), iter.chunk_size)
                fst == SubSeq(iter.v, 1, chunksz)
                snd == SubSeq(iter.v, chunksz + 1, Len(iter.v))
            IN  IF ProfileChunkNewPanics(profile[1], fst)
                THEN iter' = [iter EXCEPT !.state = "panic", !.v = snd] /\ chunks' = chunks
                ELSE /\ iter' = [iter EXCEPT !.v = snd]
                     /\ chunks' = Append(chunks, ProfileChunkNew(profile[1], fst))
    /\ UNCHANGED <<doc, pc, pos, v, error, profile, json>>

\* next() called by a user of the library.
ChunksNext == ProfileChunksNext /\ UNCHANGED main

-----------------------------------------------------------------------------
(* ser/mod.rs: the encoder *)

serialize_node(id, call_frame, hit_count, children, deopt_reason, position_ticks) ==
    [id |-> Some(id),
     callFrame |-> Some(call_frame),
     hitCount |-> Some(hit_count),
     children |-> children,
     deoptReason |-> deopt_reason,
     positionTicks |-> position_ticks]

\* Serialize for Node
SerializeNode(node) ==
    serialize_node(node.id, node.call_frame, node.hit_count, node.children,
                   node.deopt_reason, node.position_ticks)

\* Serialize for FilteredNode
SerializeFilteredNode(node, included) ==
    serialize_node(node.id, node.call_frame, node.hit_count,
                   FilteredChildren(node, included),
                   node.deopt_reason, node.position_ticks)

\* The timeDeltas closure with a last that is never updated.
SampleTimeDeltasNoLast(samples) ==
    [k \in 1..Len(samples) |-> samples[k].ts]

\* let mut last = 0; samples.map(|sample| { delta = ts - last; last = ts; delta })
RECURSIVE SampleTimeDeltasRec(_, _)
SampleTimeDeltasRec(samples, last) ==
    IF samples = <<>> THEN <<>>
    ELSE LET ts == samples[1].ts
             delta == ts - last
         IN  <<delta>> \o SampleTimeDeltasRec(Tail(samples), ts)

sample_time_deltas(samples) == SampleTimeDeltasRec(samples, 0)

sample_node_ids(samples) == [k \in 1..Len(samples) |-> samples[k].node_id]

\* serialize_profile: the five entries in their fixed order; nodes is the
\* already serialized node list.
serialize_profile(nodes, start_time, end_time, samples) ==
    [keys |-> PROFILE_FIELDS,
     nodes |-> nodes,
     startTime |-> start_time,
     endTime |-> end_time,
     samples |-> sample_node_ids(samples),
     timeDeltas |-> sample_time_deltas(samples)]

\* Serialize for Profile, as its caller round_trip_serialization runs it:
\* on the decoded profile, with no chunks taken.  json.of = 0 marks the
\* whole profile.
SerializeProfile ==
    /\ pc = "decoded" /\ iter.state = "none" /\ json = None
    /\ LET p == profile[1] IN
       json' = Some([of |-> 0,
                     doc |-> serialize_profile(
                                 [k \in 1..Len(p.nodes) |-> SerializeNode(p.nodes[k])],
                                 p.start_time, p.end_time, p.samples)])
    /\ UNCHANGED <<doc, pc, pos, v, error, profile, iter, chunks, main>>

\* Serialize for ProfileChunk, of the i-th chunk yielded.
SerializeChunk(i) ==
    /\ i \in 1..Len(chunks)
    /\ LET p == profile[1]
           chunk == chunks[i]
           nodes == ChunkNodes(p, chunk)
       IN  json' = Some([of |-> i,
                         doc |-> serialize_profile(
                                     [k \in 1..Len(nodes) |->
                                         SerializeFilteredNode(nodes[k], chunk.included)],
                                     p.start_time, p.end_time, chunk.samples)])
    /\ UNCHANGED <<doc, pc, pos, v, error, profile, iter, chunks, main>>

-----------------------------------------------------------------------------
(* v8-cpuprofile-split/src/main.rs: main, one task per chunk                 *)
(*                                                                           *)
(* main.phase  "init" | "scope" | "joined" | "returned"                     *)
(* main.tasks  the tasks spawned, the i-th for the i-th chunk yielded:       *)
(*             "spawned", "serialized" (serialize_chunk has returned its     *)
(*             result), "done" (the result is pushed)                        *)
(* main.results the Vec behind the Mutex, in the order of the pushes; main   *)
(*             drains it at the end, the model keeps it                      *)
(* main.ret    what main returned, or that it panicked                       *)

Returned(kind, what, num) ==
    Some([kind |-> kind, what |-> what, num |-> num])

\* let profile = parse_cpuprofile(..)?; create_dir_all(..)?;
\* Either ? returns the error before any chunk is taken; whether the
\* directory can be made is up to the file system.
MainBegin ==
    /\ main.phase = "init" /\ pc \in {"decoded", "error"}
    /\ \E created \in BOOLEAN :
          main' = IF pc = "error"
                  THEN [main EXCEPT !.phase = "returned",
                                    !.ret = Returned("err", "parse_cpuprofile", 0)]
                  ELSE IF ~created
                  THEN [main EXCEPT !.phase = "returned",
                                    !.ret = Returned("err", "create_dir_all", 0)]
                  ELSE [main EXCEPT !.phase = "scope"]
    /\ UNCHANGED <<doc, pc, pos, v, error, profile, iter, chunks, json>>

\* Vec::with_capacity(opt.chunk_num) panics with a capacity overflow when the
\* bytes asked for exceed isize::MAX, as they do for a chunk_num of
\* usize::MAX; main unwinds before the scope.
WithCapacityPanics(chunk_num) == chunk_num = UsizeMax

MainResultsPanic ==
    /\ main.phase = "scope" /\ iter.state = "none"
    /\ \E chunk_num \in ChunkNums : WithCapacityPanics(chunk_num)
    /\ main' = [main EXCEPT !.phase = "returned",
                            !.ret = Returned("panic", "with_capacity", 0)]
    /\ UNCHANGED <<doc, pc, pos, v, error, profile, iter, chunks, json>>

\* profile.chunks(opt.chunk_num), inside the closure of rayon::scope
MainChunks(chunk_num) ==
    /\ main.phase = "scope"
    /\ ~WithCapacityPanics(chunk_num)
    /\ Chunks(chunk_num)

\* One turn of the for loop: the next chunk, and s.spawn of its task; or the
\* end of the loop.
MainSpawn ==
    /\ main.phase = "scope"
    /\ ProfileChunksNext
    /\ main' = IF Len(chunks') > Len(chunks)
               THEN [main EXCEPT !.tasks = Append(@, [state |-> "spawned", ok |-> FALSE])]
               ELSE main

\* serialize_chunk in task num: File::create and serde_json::to_writer
\* succeed or fail as the file system decides.
TaskSerialize(num) ==
    /\ num \in 1..Len(main.tasks)
    /\ main.tasks[num].state = "spawned"
    /\ \E ok \in BOOLEAN :
          main' = [main EXCEPT !.tasks[num] = [state |-> "serialized", ok |-> ok]]
    /\ UNCHANGED <<doc, pc, pos, v, error, profile, iter, chunks, json>>

\* results.lock().unwrap().push(result)
TaskPush(num) ==
    /\ num \in 1..Len(main.tasks)
    /\ main.tasks[num].state = "serialized"
    /\ main' = [main EXCEPT !.tasks[num].state = "done",
                            !.results = Append(@, [num |-> num, ok |-> main.tasks[num].ok])]
    /\ UNCHANGED <<doc, pc, pos, v, error, profile, iter, chunks, json>>

\* A scope that returns without waiting for its tasks.
ScopeDoesNotWait == TRUE

\* rayon::scope returns when every task spawned in it has finished.
ScopeWaits ==
    \A num \in 1..Len(main.tasks) : main.tasks[num].state = "done"

\* The closure has run to its end and the scope returns.
ScopeJoin ==
    /\ main.phase = "scope" /\ iter.state = "done"
    /\ ScopeWaits
    /\ main' = [main EXCEPT !.phase = "joined"]
    /\ UNCHANGED <<doc, pc, pos, v, error, profile, iter, chunks, json>>

\* The closure has panicked (in chunks or in ProfileChunk::new): the scope
\* waits for the tasks spawned so far and main unwinds.
ScopePanic ==
    /\ main.phase = "scope" /\ iter.state = "panic"
    /\ ScopeWaits
    /\ main' = [main EXCEPT !.phase = "returned", !.ret = Returned("panic", "scope", 0)]
    /\ UNCHANGED <<doc, pc, pos, v, error, profile, iter, chunks, json>>

\* for result in results.lock().unwrap().drain(..) { result?; } Ok(())
RECURSIVE DrainResults(_)
DrainResults(results) ==
    IF results = <<>> THEN Returned("ok", "", 0)
    ELSE IF ~results[1].ok THEN Returned("err", "serialize_chunk", results[1].num)
    ELSE DrainResults(Tail(results))

MainReturn ==
    /\ main.phase = "joined"
    /\ main' = [main EXCEPT !.phase = "returned", !.ret = DrainResults(main.results)]
    /\ UNCHANGED <<doc, pc, pos, v, error, profile, iter, chunks, json>>

\* The runs of main: a profile of the chain of nodes under any samples, and
\* a document the decoder refuses.
MainDocs ==
    {Document(PROFILE_FIELDS, NodeObjects(Chain, Ascending, FALSE),
              samples, [k \in 1..Len(samples) |-> 1]) :
        samples \in SeqsUpTo({1, MaxNodes}, MaxSamples)}
    \cup
    {Document(SubSeq(PROFILE_FIELDS, 1, Len(PROFILE_FIELDS) - 1),
              NodeObjects(Chain, Ascending, FALSE), <<1>>, <<>>)}

InitMain == Init /\ doc \in MainDocs

NextMain ==
    \/ VisitNodes
    \/ VisitStartTime
    \/ VisitEndTime
    \/ VisitSamples
    \/ VisitTimeDeltas
    \/ Finish
    \/ MainBegin
    \/ MainResultsPanic
    \/ \E chunk_num \in ChunkNums : MainChunks(chunk_num)
    \/ MainSpawn
    \/ \E num \in 1..MaxSamples : TaskSerialize(num)
    \/ \E num \in 1..MaxSamples : TaskPush(num)
    \/ ScopeJoin
    \/ ScopePanic
    \/ MainReturn

SpecMain == InitMain /\ [][NextMain]_vars

-----------------------------------------------------------------------------
Next ==
    \/ VisitNodes
    \/ VisitStartTime
    \/ VisitEndTime
    \/ VisitSamples
    \/ VisitTimeDeltas
    \/ Finish
    \/ \E chunk_num \in ChunkNums : Chunks(chunk_num)
    \/ ChunksNext
    \/ SerializeProfile
    \/ \E i \in 1..MaxSamples : SerializeChunk(i)

Spec == Init /\ [][Next]_vars

-----------------------------------------------------------------------------
(* What the properties below are stated with.  None of it is used by the    *)
(* actions above.                                                            *)

NodeById(p, id) == CHOOSE node \in Range(p.nodes) : node.id = id

\* The ancestors of node id: its parent, the parent of that, ... up to a root.
RECURSIVE AncestorsWithin(_, _, _)
AncestorsWithin(p, id, steps) ==
    LET parent_id == NodeById(p, id).parent_id IN
    IF steps = 0 \/ IsNone(parent_id) THEN {}
    ELSE {parent_id[1]} \cup AncestorsWithin(p, parent_id[1], steps - 1)

Ancestors(p, id) == AncestorsWithin(p, id, Len(p.nodes))

SampledIds(samples) == {samples[k].node_id : k \in 1..Len(samples)}

RECURSIVE RunningSum(_, _)
RunningSum(deltas, k) == IF k = 0 THEN 0 ELSE RunningSum(deltas, k - 1) + deltas[k]

SortedByTs(samples) ==
    \A i, j \in 1..Len(samples) : i < j => samples[i].ts <= samples[j].ts

Occurrences(seq, x) == Cardinality({k \in 1..Len(seq) : seq[k] = x})

RECURSIVE ConcatSlices(_)
ConcatSlices(cs) == IF cs = <<>> THEN <<>> ELSE cs[1].samples \o ConcatSlices(Tail(cs))

Ceiling(n, d) == (n \div d) + (IF n % d = 0 THEN 0 ELSE 1)

Canonical(d) == d.keys = PROFILE_FIELDS

\* No time delta drives the accumulator below zero.
AccumulatorStaysPositive(d) ==
    \A k \in 1..Len(d.timeDeltas) : RunningSum(d.timeDeltas, k) >= 0

MissingKeys(d) == {key \in Range(PROFILE_FIELDS) : key \notin Range(d.keys)}

MissingNodeKeys(d) ==
    {key \in {"id", "callFrame", "hitCount"} :
        \E k \in 1..Len(d.nodes) : IsNone(d.nodes[k][key])}

ChunksEnded == iter.state \in {"done", "panic"}

-----------------------------------------------------------------------------
(* C1 *)

\* C1 as stated: serializing the Profile decoded from a canonically encoded
\* document D yields D again.
C1_RoundTripAnyDeltas ==
    (json # None /\ json[1].of = 0 /\ Canonical(doc)) => json[1].doc = doc

\* C1, amended: serializing the Profile decoded from a canonically encoded
\* document D none of whose timeDeltas is negative yields D again: the same
\* nodes in the same order with the same optional fields, the same startTime
\* and endTime, the same samples and timeDeltas element for element.
C1_RoundTrip ==
    (/\ json # None /\ json[1].of = 0
     /\ Canonical(doc)
     /\ \A k \in 1..Len(doc.timeDeltas) : doc.timeDeltas[k] >= 0)
    => json[1].doc = doc

\* A document that makes the round trip with two samples of different nodes
\* at the same instant.
C1_Witness ==
    /\ json # None /\ json[1].of = 0
    /\ Canonical(doc)
    /\ \A k \in 1..Len(doc.timeDeltas) : doc.timeDeltas[k] >= 0
    /\ \E k \in 2..Len(doc.samples) :
          doc.timeDeltas[k] = 0 /\ doc.samples[k] # doc.samples[k - 1]
    /\ json[1].doc = doc

(* C2 *)

\* C2: in every chunk, the node of every sample of its slice and every
\* ancestor of that node, up to a root, are in the included set.
C2_ClosureComplete ==
    \A i \in 1..Len(chunks) :
        \A id \in SampledIds(chunks[i].samples) :
            ({id} \cup Ancestors(profile[1], id)) \subseteq chunks[i].included

\* A chunk with two samples of different nodes whose ancestors overlap: the
\* walk up from the second one ends early, on an ancestor the first put in.
C2_Witness ==
    \E i \in 1..Len(chunks) :
        /\ \E k \in 2..Len(chunks[i].samples) :
              LET a == chunks[i].samples[k - 1].node_id
                  b == chunks[i].samples[k].node_id
              IN  /\ a # b
                  /\ b \notin Ancestors(profile[1], a)
                  /\ Ancestors(profile[1], a) \cap Ancestors(profile[1], b) # {}
        /\ \A id \in SampledIds(chunks[i].samples) :
              ({id} \cup Ancestors(profile[1], id)) \subseteq chunks[i].included

(* C3 *)

\* C3: every included id of a chunk is the node of a sample of its slice or
\* an ancestor of such a node.
C3_ClosureMinimal ==
    \A i \in 1..Len(chunks) :
        chunks[i].included \subseteq
            UNION {{id} \cup Ancestors(profile[1], id) :
                      id \in SampledIds(chunks[i].samples)}

\* A chunk that leaves out a node another chunk of the same profile samples.
C3_Witness ==
    \E i, j \in 1..Len(chunks) :
        /\ i # j
        /\ chunks[i].included # {}
        /\ \E id \in SampledIds(chunks[j].samples) : id \notin chunks[i].included
        /\ chunks[i].included \subseteq
               UNION {{id} \cup Ancestors(profile[1], id) :
                         id \in SampledIds(chunks[i].samples)}

(* C4 *)

\* C4: for every chunk count n >= 1, once chunks(n) and the iteration over it
\* have ended, the slices of the chunks yielded, concatenated in the order
\* yielded, are the sorted sample sequence of the profile.
C4_PartitionCoverage ==
    (ChunksEnded /\ iter.chunk_num >= 1)
    => ConcatSlices(chunks) = profile[1].samples

\* What the code does keep of C4: when n + total does not overflow a usize
\* and the profile has a sample, the slices concatenate to the samples.
C4_CoverageWithoutOverflow ==
    (/\ ChunksEnded /\ iter.chunk_num >= 1
     /\ Len(profile[1].samples) >= 1
     /\ Len(profile[1].samples) + iter.chunk_num <= UsizeMax)
    => /\ iter.state = "done"
       /\ ConcatSlices(chunks) = profile[1].samples

(* C5 *)

\* C5: for a profile with at least one sample and n >= 1, chunks(n) yields at
\* least 1 and at most n chunks, none empty, each but the last of
\* ceiling(total / n) samples, the last of at most that many.
C5_ChunkCountAndSize ==
    (ChunksEnded /\ iter.chunk_num >= 1 /\ Len(profile[1].samples) >= 1)
    => LET size == Ceiling(Len(profile[1].samples), iter.chunk_num) IN
       /\ Len(chunks) >= 1
       /\ Len(chunks) <= iter.chunk_num
       /\ \A i \in 1..Len(chunks) :
             /\ Len(chunks[i].samples) >= 1
             /\ i < Len(chunks) => Len(chunks[i].samples) = size
             /\ Len(chunks[i].samples) <= size

\* What the code does keep of C5: the same bounds when n + total does not
\* overflow a usize.
C5_BoundsWithoutOverflow ==
    (/\ ChunksEnded /\ iter.chunk_num >= 1
     /\ Len(profile[1].samples) >= 1
     /\ Len(profile[1].samples) + iter.chunk_num <= UsizeMax)
    => LET size == Ceiling(Len(profile[1].samples), iter.chunk_num) IN
       /\ Len(chunks) >= 1
       /\ Len(chunks) <= iter.chunk_num
       /\ \A i \in 1..Len(chunks) :
             /\ Len(chunks[i].samples) >= 1
             /\ i < Len(chunks) => Len(chunks[i].samples) = size
             /\ Len(chunks[i].samples) <= size

(* C6 *)

\* C6: chunks(0) returns an InvalidArgumentError to its caller.
C6_ZeroChunkNumIsAnError ==
    (iter.state # "none" /\ iter.chunk_num = 0)
    => iter.state = "InvalidArgumentError"

(* C7 *)

\* C7: after a successful decode, the node named by an entry of the children
\* list of node N has parent_id N.id, and a node no children list names has
\* no parent_id.
C7_ParentDerivation ==
    pc = "decoded" =>
        LET p == profile[1] IN
        \A n \in Range(p.nodes) :
            /\ IsSome(n.children) =>
                  \A c \in Range(n.children[1]) : NodeById(p, c).parent_id = Some(n.id)
            /\ (\A m \in Range(p.nodes) :
                   IsNone(m.children) \/ n.id \notin Range(m.children[1]))
               => IsNone(n.parent_id)

\* A decoded document in which a child comes before its parent.
C7_Witness ==
    /\ pc = "decoded"
    /\ \E i, j \in 1..Len(profile[1].nodes) :
          /\ i < j
          /\ IsSome(profile[1].nodes[j].children)
          /\ profile[1].nodes[i].id \in Range(profile[1].nodes[j].children[1])
          /\ profile[1].nodes[i].parent_id = Some(profile[1].nodes[j].id)

(* C8 *)

\* C8 as stated: the decoded samples are sorted by ts, the ts of the k-th
\* sample in document order is the running sum of timeDeltas[0..k], and these
\* running sums never decrease.
C8_RunningSumMonotone ==
    pc = "decoded" =>
        /\ SortedByTs(profile[1].samples)
        /\ \A k \in 1..Len(doc.timeDeltas) :
              v.samples[k].ts = RunningSum(doc.timeDeltas, k)
        /\ \A k \in 2..Len(v.samples) : v.samples[k - 1].ts <= v.samples[k].ts

\* C8, amended: the decoded samples are the samples of the document sorted
\* ascending by ts, and the ts of the k-th sample in document order is the
\* running sum of timeDeltas[0..k], computed in document order before the
\* sort; these running sums never decrease when no timeDelta is negative.
C8_SampleOrdering ==
    pc = "decoded" =>
        /\ SortedByTs(profile[1].samples)
        /\ \A x \in Range(v.samples) :
              Occurrences(profile[1].samples, x) = Occurrences(v.samples, x)
        /\ Len(profile[1].samples) = Len(v.samples)
        /\ \A k \in 1..Len(doc.timeDeltas) :
              /\ v.samples[k].ts = RunningSum(doc.timeDeltas, k)
              /\ v.samples[k].node_id = doc.samples[k]
        /\ (\A k \in 1..Len(doc.timeDeltas) : doc.timeDeltas[k] >= 0)
           => \A k \in 2..Len(v.samples) : v.samples[k - 1].ts <= v.samples[k].ts

\* A decoded document with a negative delta, whose samples the sort moved.
C8_Witness ==
    /\ pc = "decoded"
    /\ \E k \in 1..Len(doc.timeDeltas) : doc.timeDeltas[k] < 0
    /\ profile[1].samples # v.samples
    /\ SortedByTs(profile[1].samples)
    /\ \A k \in 1..Len(doc.timeDeltas) :
          v.samples[k].ts = RunningSum(doc.timeDeltas, k)

(* C9 *)

\* The sample sequence the latest serialize call was given.
Serialized == IF json[1].of = 0 THEN profile[1].samples ELSE chunks[json[1].of].samples

\* C9: the samples emitted for a Profile or a ProfileChunk are the node ids
\* of its samples in order; the first timeDelta emitted is the ts of the first
\* sample, each later one the difference from the ts of the sample before,
\* never negative; the running sum of the timeDeltas emitted is the ts of
\* each sample.
C9_TimestampsSurvive ==
    json # None =>
        LET out == json[1].doc
            src == Serialized
        IN  /\ Len(out.samples) = Len(src) /\ Len(out.timeDeltas) = Len(src)
            /\ \A k \in 1..Len(src) :
                  /\ out.samples[k] = src[k].node_id
                  /\ out.timeDeltas[k] = IF k = 1 THEN src[1].ts
                                                  ELSE src[k].ts - src[k - 1].ts
                  /\ out.timeDeltas[k] >= 0
                  /\ RunningSum(out.timeDeltas, k) = src[k].ts

\* A later chunk serialized: its first timeDelta is the ts of its first
\* sample, which lies after the last sample of the chunk before it.
C9_Witness ==
    /\ json # None /\ json[1].of >= 2
    /\ LET before == chunks[json[1].of - 1].samples IN
       /\ before[Len(before)].ts > 0
       /\ Serialized[1].ts > before[Len(before)].ts
    /\ json[1].doc.samples[1] = Serialized[1].node_id
    /\ json[1].doc.timeDeltas[1] = Serialized[1].ts

(* C10 *)

\* C10: the decode of a document that lacks a required top-level key, or in
\* which a node object lacks a required key, and that parses otherwise, ends
\* with a missing_field error that names a key that is missing, and with no
\* Profile.
C10_MissingFieldNamed ==
    (/\ pc # "visit"
     /\ AccumulatorStaysPositive(doc)
     /\ MissingKeys(doc) \cup MissingNodeKeys(doc) # {})
    => /\ pc = "error"
       /\ profile = None
       /\ error # None
       /\ error[1].kind = "missing_field"
       /\ error[1].field \in MissingKeys(doc) \cup MissingNodeKeys(doc)

\* A document whose only defect is the absent timeDeltas, refused for it.
C10_Witness ==
    /\ pc = "error"
    /\ MissingKeys(doc) = {"timeDeltas"}
    /\ MissingNodeKeys(doc) = {}
    /\ error[1].field = "timeDeltas"
    /\ profile = None


-----------------------------------------------------------------------------
\* The positions of results that hold a failure.
Failures == {k \in 1..Len(main.results) : ~main.results[k].ok}

\* main came out of the scope by its closing brace, not by a panic or by an
\* error before the scope.
ThroughScope ==
    \/ main.phase = "joined"
    \/ main.phase = "returned" /\ main.ret[1].what \in {"", "serialize_chunk"}

\* C11: error aggregation in the run of main. (a) A task that has not yet
\* recorded its result can always take its next step, whatever its siblings
\* returned, and a finished task has exactly one entry in results, holding
\* its own result. (b) Once the scope has returned, every chunk yielded has a
\* task and every task is finished, so the results are read only after all
\* tasks have recorded theirs. (c) main then returns Ok exactly when no entry
\* is a failure, and otherwise the failure that was recorded first.
C11_ErrorAggregation ==
    /\ \A num \in 1..Len(main.tasks) :
          /\ main.tasks[num].state # "done" =>
                ENABLED (TaskSerialize(num) \/ TaskPush(num))
          /\ Cardinality({k \in 1..Len(main.results) : main.results[k].num = num})
                = IF main.tasks[num].state = "done" THEN 1 ELSE 0
          /\ \A k \in 1..Len(main.results) :
                main.results[k].num = num => main.results[k].ok = main.tasks[num].ok
    /\ \A k \in 1..Len(main.results) : main.results[k].num \in 1..Len(main.tasks)
    /\ ThroughScope =>
          /\ Len(main.tasks) = Len(chunks)
          /\ \A num \in 1..Len(main.tasks) : main.tasks[num].state = "done"
          /\ Len(main.results) = Len(main.tasks)
    /\ (main.phase = "returned" /\ ThroughScope) =>
          /\ main.ret[1].kind = "ok" <=> Failures = {}
          /\ Failures # {} =>
                /\ main.ret[1].kind = "err"
                /\ \E k \in Failures :
                      /\ \A j \in Failures : k <= j
                      /\ main.ret[1].num = main.results[k].num

\* main has returned the failure of a task other than the first although a
\* sibling succeeded and recorded its result after that failure.
C11_Witness ==
    /\ main.phase = "returned" /\ ThroughScope
    /\ Len(main.results) >= 2
    /\ ~main.results[1].ok /\ main.results[1].num > 1
    /\ \E k \in 2..Len(main.results) : main.results[k].ok
    /\ main.ret[1] = [kind |-> "err", what |-> "serialize_chunk", num |-> main.results[1].num]

-----------------------------------------------------------------------------
\* seq without its elements outside set, the others in their order.
RECURSIVE Restrict(_, _)
Restrict(seq, set) ==
    IF seq = <<>> THEN <<>>
    ELSE IF seq[1] \in set THEN <<seq[1]>> \o Restrict(Tail(seq), set)
    ELSE Restrict(Tail(seq), set)

\* C12: the nodes written for a chunk are the nodes of the profile whose id
\* is included, in the order of the profile; the children written for each
\* are its children in the profile without the ids that are not included, in
\* their order (a node without a children list is written without one); and
\* every child id written is the id of a node written for the same chunk.
C12_FilteredTree ==
    (IsSome(json) /\ json[1].of >= 1) =>
        LET p == profile[1]
            included == chunks[json[1].of].included
            out == json[1].doc.nodes
        IN  /\ [k \in 1..Len(out) |-> out[k].id[1]]
                  = Restrict([k \in 1..Len(p.nodes) |-> p.nodes[k].id], included)
            /\ \A k \in 1..Len(out) :
                  LET node == NodeById(p, out[k].id[1]) IN
                  /\ IsSome(out[k].children) <=> IsSome(node.children)
                  /\ IsSome(out[k].children) =>
                        /\ out[k].children[1] = Restrict(node.children[1], included)
                        /\ \A c \in Range(out[k].children[1]) :
                              \E j \in 1..Len(out) : out[j].id[1] = c

\* A chunk written with fewer nodes than the profile has, one of them keeping
\* some of its children and losing another.
C12_Witness ==
    /\ IsSome(json) /\ json[1].of >= 1
    /\ Len(json[1].doc.nodes) < Len(profile[1].nodes)
    /\ \E k \in 1..Len(json[1].doc.nodes) :
          LET written == json[1].doc.nodes[k]
              node == NodeById(profile[1], written.id[1])
          IN  /\ IsSome(written.children) /\ written.children[1] # <<>>
              /\ Len(written.children[1]) < Len(node.children[1])

-----------------------------------------------------------------------------
\* C13: for a profile without samples and a chunk_num of at least 1,
\* chunks(chunk_num) does not fail and its iterator yields no chunk.
C13_NoSamplesNoChunks ==
    (/\ iter.state # "none"
     /\ iter.chunk_num >= 1
     /\ profile[1].samples = <<>>)
    => /\ iter.state # "panic"
       /\ chunks = <<>>

====
